---- MODULE Spec2Model ----
(***************************************************************************)
(* Model of github.com/mitranim/try: panic-based error handling for Go.    *)
(*                                                                         *)
(* An error is the sequence of its links, outermost first; nil is the      *)
(* empty sequence.  A panic payload (interface{}) is a tagged record.      *)
(* A message is a sequence of text tokens, so that prepending              *)
(* "<msg>: " is concatenation.                                             *)
(*                                                                         *)
(* Domain: panic payloads are non-nil (panic(nil) is not modelled),        *)
(* channels handed to RecChan are open, and a callback that is not nil     *)
(* returns normally.  The sources hold two versions of RecWithMessage,     *)
(* which differ; both are modelled (RecWithMessage, RecWithMessageSet).    *)
(***************************************************************************)
EXTENDS Integers, Sequences, FiniteSets, TLC

VARIABLES
    u,          \* SpecErr: the utility call in progress (Err / WithStack);
                \* SpecTo: the call of a typed function of try_to.go;
                \* SpecHasStack: HasStack's loop, pass by pass
    stack,      \* the goroutine's call stack, outermost frame first
    panicking,  \* the goroutine's panic state: on, the payload val, and its
                \* history: the payload first raised (origin), the deferred
                \* calls that raised it again (via) and what each had been
                \* given as callback or message (args)
    last,       \* the operation that completed last, with its inputs/outputs
    chan,       \* the channel handed to RecChan: [cap, buf, waiting, got]
    crashed,    \* TRUE once a panic left the outermost frame
    peer        \* SpecGo: the stack and panic state of the other goroutine,
                \* the one that is not executing now

vars == <<u, stack, panicking, last, chan, crashed, peer>>

----------------------------------------------------------------------------
(* Bounds *)

MaxChain == 3      \* links per input error chain
MaxCalls == 3      \* repeated WithStack calls on one error
MaxNest  == 2      \* guarded scopes (deferred combinators) open at once
ChanCap  == 1      \* largest channel capacity
MaxGot   == 1      \* values the receiving goroutine takes

----------------------------------------------------------------------------
(* Values: interface{} payloads and errors.  The fields of every record   *)
(* are written in the order of the first occurrence of their names in the *)
(* module, which is the order TLC keeps them in.                          *)

Nil == <<>>

\* interface{} values.  t: dynamic type; s/n: the string or int; e: the error.
NilV    == [e |-> Nil, n |-> 0, s |-> "", t |-> "nil"]
StrV(s) == [e |-> Nil, n |-> 0, s |-> s,  t |-> "str"]
IntV(n) == [e |-> Nil, n |-> n, s |-> "", t |-> "int"]
ErrV(e) == IF e = Nil THEN NilV ELSE [e |-> e, n |-> 0, s |-> "", t |-> "err"]

\* Links.  k: the dynamic type of the link; m: its own message; v: Val.Value.
\*   "plain"  a foreign leaf error without a trace (errors.New of the stdlib)
\*   "fund"   pkg/errors *fundamental: leaf with a trace (pkg/errors.New)
\*   "self"   a foreign leaf whose Unwrap returns itself
\*   "stack"  pkg/errors *withStack
\*   "msg"    pkg/errors *withMessage
\*   "pub"    a foreign struct embedding `error`: Error() is promoted,
\*            Unwrap() and StackTrace() are not (ErrPub of the examples)
\*   "val"    try.Val (a leaf of the sequence: Unwrap goes through v)
Link(k, m, v) == [k |-> k, m |-> m, v |-> v]

Plain(m) == <<Link("plain", m, NilV)>>
Fund(m)  == <<Link("fund", m, NilV)>>
Self(m)  == <<Link("self", m, NilV)>>
Pub(e)   == <<Link("pub", "", NilV)>> \o e

\* fmt.Sprint of a non-error value: decimal digits for an int.
Digit == <<"0", "1", "2", "3", "4", "5", "6", "7", "8", "9">>

RECURSIVE Decimal(_)
Decimal(n) ==
    IF n < 10 THEN <<Digit[n + 1]>>
    ELSE Decimal(n \div 10) \o <<Digit[(n % 10) + 1]>>

RECURSIVE ErrorText(_)

Sprint(v) ==
    CASE v.t = "str" -> IF v.s = "" THEN <<>> ELSE <<v.s>>
      [] v.t = "int" -> IF v.n < 0 THEN <<"-">> \o Decimal(-v.n) ELSE Decimal(v.n)
      [] v.t = "err" -> ErrorText(v.e)
      [] OTHER       -> <<"<nil>">>

\* Val.Error
ValError(v) == IF v # NilV THEN Sprint(v) ELSE <<>>

\* err.Error(), by dynamic type.
ErrorText(err) ==
    IF err = Nil THEN <<>>
    ELSE LET h == Head(err) IN
         CASE h.k \in {"plain", "fund", "self"} -> <<h.m>>
           [] h.k = "stack" -> ErrorText(Tail(err))
           [] h.k = "msg"   -> <<h.m, ": ">> \o ErrorText(Tail(err))
           [] h.k = "pub"   -> ErrorText(Tail(err))
           [] h.k = "val"   -> ValError(h.v)

\* Val.Unwrap
ValUnwrap(v) == IF v.t = "err" THEN v.e ELSE Nil

\* errors.Unwrap: the link's Unwrap method if it has one, else nil.
Unwrap(err) ==
    IF err = Nil THEN Nil
    ELSE LET h == Head(err) IN
         CASE h.k \in {"stack", "msg"} -> Tail(err)
           [] h.k = "self" -> err
           [] h.k = "val"  -> ValUnwrap(h.v)
           [] OTHER        -> Nil

\* err.(interface{ StackTrace() errors.StackTrace })
HasStackTraceMethod(err) == err # Nil /\ Head(err).k \in {"fund", "stack"}

\* errors.WithStack and errors.WithMessage of pkg/errors: nil stays nil.
ErrorsWithStack(err) ==
    IF err = Nil THEN Nil ELSE <<Link("stack", "", NilV)>> \o err

ErrorsWithMessage(err, msg) ==
    IF err = Nil THEN Nil ELSE <<Link("msg", msg, NilV)>> \o err

\* Val{val} as an error value.
ValErr(v) == <<Link("val", "", v)>>

----------------------------------------------------------------------------
(* try_util.go *)

RECURSIVE HasStack(_)
HasStack(err) ==
    IF err = Nil THEN FALSE
    ELSE IF HasStackTraceMethod(err) THEN TRUE
    ELSE LET cause == Unwrap(err) IN
         IF cause = err THEN FALSE ELSE HasStack(cause)

\* Faulty variant: wraps even an error that has a trace, as errors.WithStack does.
WithStackAlways(err) == ErrorsWithStack(err)

WithStack(err) ==
    IF ~HasStack(err) THEN ErrorsWithStack(err) ELSE err

\* Faulty variant: an error payload gets a trace whether or not it has one.
ErrAlwaysTraces(val) ==
    IF val = NilV THEN Nil
    ELSE IF val.t = "err" /\ val.e # Nil THEN ErrorsWithStack(val.e)
    ELSE ErrorsWithStack(ValErr(val))

\* Faulty variant: a non-error payload is boxed in Val but gets no trace.
ErrValUntraced(val) ==
    IF val = NilV THEN Nil
    ELSE IF val.t = "err" /\ val.e # Nil THEN WithStack(val.e)
    ELSE ValErr(val)

Err(val) ==
    IF val = NilV THEN Nil
    ELSE IF val.t = "err" /\ val.e # Nil THEN WithStack(val.e)
    ELSE ErrorsWithStack(ValErr(val))

----------------------------------------------------------------------------
(* Inputs *)

Msgs == {"A", "B"}

Leaves == {Plain(m) : m \in Msgs} \cup {Fund("F"), Self("S")}
              \cup {ValErr(StrV("fail")), ValErr(IntV(42)),
                    ValErr(ErrV(Fund("F")))}

Wrappers == {Link("stack", "", NilV), Link("msg", "ctx", NilV),
             Link("pub", "", NilV)}

RECURSIVE ChainsOf(_)
ChainsOf(n) ==
    IF n = 1 THEN Leaves
    ELSE LET shorter == ChainsOf(n - 1) IN
         shorter \cup {<<w>> \o c : w \in Wrappers, c \in shorter}

\* Every non-nil error of at most MaxChain links.
ErrChains == ChainsOf(MaxChain)

\* Non-error payloads.
RawVals == {StrV("fail"), StrV(""), IntV(0), IntV(42), IntV(-7)}

Payloads == {NilV} \cup RawVals \cup {ErrV(e) : e \in ErrChains}

----------------------------------------------------------------------------
(* Claim-side measures of an error, independent of HasStack *)

\* The errors reached from err by Unwrap, err first, up to a nil cause or a
\* cause that is the error itself.
RECURSIVE CauseChain(_)
CauseChain(err) ==
    IF err = Nil THEN <<>>
    ELSE IF Unwrap(err) = err THEN <<err>>
    ELSE <<err>> \o CauseChain(Unwrap(err))

TracedLinks(err) ==
    Cardinality({i \in DOMAIN CauseChain(err) :
                    HasStackTraceMethod(CauseChain(err)[i])})

----------------------------------------------------------------------------
(* SpecErr: the utility functions applied to every bounded input *)

NoCall == [n |-> 0, arg |-> NilV, in |-> Nil, op |-> "init", res |-> Nil]

\* Err(arg)
CallErr ==
    /\ u.op = "init"
    /\ u' = [u EXCEPT !.op = "Err", !.res = Err(u.arg)]
    /\ UNCHANGED <<stack, panicking, last, chan, crashed, peer>>

\* WithStack(err), then WithStack of its own result, again and again
CallWithStack ==
    /\ \/ u.op = "init" /\ u.arg.t \in {"nil", "err"}
       \/ u.op = "WithStack" /\ u.n < MaxCalls
    /\ LET in == IF u.op = "init" THEN u.arg.e ELSE u.res IN
       u' = [u EXCEPT !.op = "WithStack", !.in = in,
                      !.res = WithStack(in), !.n = u.n + 1]
    /\ UNCHANGED <<stack, panicking, last, chan, crashed, peer>>

----------------------------------------------------------------------------
(* Callbacks handed to the combinators *)

\* func(error) bool.  "nil" is the nil func; "isA" is errors.Is(err, A) for
\* the sentinel A; "eqA" is err == A; "any" accepts every error.
Preds == {"nil", "isA", "eqA", "any"}

Test(test, err) ==
    CASE test = "isA" -> \E i \in DOMAIN CauseChain(err) :
                             CauseChain(err)[i] = Plain("A")
      [] test = "eqA" -> err = Plain("A")
      [] test = "any" -> TRUE
      [] OTHER        -> FALSE

\* func(error) error.  "nil" is the nil func; "id" returns its argument;
\* "toNil" returns nil; "pub" returns ErrPub{err}; "fresh" returns a new
\* error without a trace.
TransFns == {"nil", "id", "toNil", "pub", "fresh"}

Apply(fun, err) ==
    CASE fun = "id"    -> err
      [] fun = "toNil" -> Nil
      [] fun = "pub"   -> Pub(err)
      [] fun = "fresh" -> Plain("B")
      [] OTHER         -> err

DetailMsgs == {"failed to X"}

\* Messages of Detail calls nested in one another.
ScopeMsgs == {"failed to X", "failed to Y"}

----------------------------------------------------------------------------
(* try_to.go, try_defer.go: what each function does with recover()'s value *)
(* r.  A result is [ptr, raise, calls]: the new value of *ptr, the payload *)
(* panicked with (NilV: returns normally) and the callbacks invoked.       *)

Outcome(ptr, raise, calls) ==
    [ptr |-> ptr, raise |-> raise, calls |-> calls, given |-> Nil]

\* The same, for a function that hands err to its callback.
Handed(raise, calls, err) == [Outcome(Nil, raise, calls) EXCEPT !.given = err]

\* Calling a nil func value: a run-time panic with a runtime.Error.
NilCall == ErrV(Plain("nil func call"))

\* A *error: the nil pointer, or a pointer to a variable holding e.
NilPtr == <<>>
Ref(e) == <<e>>
Deref(ptr) == IF ptr = NilPtr THEN Nil ELSE ptr[1]

\* Faulty variant: panics with the error as given, without ensuring a trace.
ToUntraced(err) == IF err # Nil THEN ErrV(err) ELSE NilV

\* Faulty variant: adds a trace by errors.WithStack, which always wraps.
ToRetraces(err) == IF err # Nil THEN ErrV(ErrorsWithStack(err)) ELSE NilV

\* To(err): the payload it panics with, NilV when it returns.
To(err) == IF err # Nil THEN ErrV(WithStack(err)) ELSE NilV

\* Values of the types the typed functions take: bool and []byte besides
\* the string, int and interface{} values above.
BoolV(b)  == [e |-> Nil, n |-> IF b THEN 1 ELSE 0, s |-> "", t |-> "bool"]
BytesV(s) == [e |-> Nil, n |-> 0, s |-> s, t |-> "bytes"]

\* Faulty variant: returns val without looking at err.
AdapterUnchecked(val, err) == [raise |-> NilV, ret |-> <<val>>]

\* Interface, Bool, ..., UintptrSlice: `To(err); return val`.  The payload
\* panicked with (NilV: none) and the values returned (none after a panic).
Adapter(val, err) ==
    LET p == To(err) IN
    [raise |-> p, ret |-> IF p # NilV THEN <<>> ELSE <<val>>]

\* The typed functions modelled, and values of the type each takes.
Adapters == {"Interface", "Bool", "String", "Int", "ByteSlice"}

ValsOf(name) ==
    CASE name = "Bool"      -> {BoolV(FALSE), BoolV(TRUE)}
      [] name = "String"    -> {StrV(""), StrV("val")}
      [] name = "Int"       -> {IntV(0), IntV(42), IntV(-7)}
      [] name = "ByteSlice" -> {BytesV(""), BytesV("val")}
      [] OTHER              -> {NilV, StrV("val"), IntV(42), ErrV(Plain("A"))}

\* maybeSet(ptr, err): the new value of *ptr.
MaybeSet(ptr, err) == IF err # Nil THEN err ELSE ptr

\* Faulty variant: stores what recover() gave without classifying it by Err.
RecUnclassified(ptr, r) ==
    Outcome(IF r = NilV THEN ptr ELSE IF r.t = "err" THEN r.e ELSE ValErr(r),
            NilV, <<>>)

\* Faulty variant: assigns the classified error even when it is nil.
RecAssigns(ptr, r) == Outcome(Err(r), NilV, <<>>)

Rec(ptr, r) ==
    LET err == Err(r) IN
    Outcome(IF err # Nil THEN err ELSE ptr, NilV, <<>>)

\* Faulty variant: recovers every panic, as Rec does, whatever the test says.
RecOnlyUnfiltered(ptr, test, r) ==
    LET err == Err(r) IN
    Outcome(IF err # Nil THEN err ELSE ptr, NilV, <<>>)

\* Faulty variant: stores the error only when the test accepts it.
RecOnlyWritesLate(ptr, test, r) ==
    LET err == Err(r) IN
    IF err # Nil
    THEN IF test # "nil" /\ Test(test, err)
         THEN Outcome(err, NilV, <<"test">>)
         ELSE Outcome(ptr, ErrV(err), IF test # "nil" THEN <<"test">> ELSE <<>>)
    ELSE Outcome(ptr, NilV, <<>>)

\* Faulty variant: without a panic, tests the error that was returned.
RecOnlyChecksReturned(ptr, test, r) ==
    LET err == MaybeSet(ptr, Err(r)) IN
    IF err # Nil
    THEN IF test # "nil" /\ Test(test, err)
         THEN Outcome(err, NilV, <<"test">>)
         ELSE Outcome(err, ErrV(WithStack(err)),
                      IF test # "nil" THEN <<"test">> ELSE <<>>)
    ELSE Outcome(ptr, NilV, <<>>)

RecOnly(ptr, test, r) ==
    LET err == Err(r) IN
    IF err # Nil
    THEN IF test # "nil" /\ Test(test, err)
         THEN Outcome(err, NilV, <<"test">>)
         ELSE Outcome(err, ErrV(err), IF test # "nil" THEN <<"test">> ELSE <<>>)
    ELSE Outcome(ptr, NilV, <<>>)

\* Faulty variant: the test's answer is read the wrong way round.
IgnoreInverted(test, r) ==
    LET err == Err(r) IN
    IF err # Nil /\ test # "nil" /\ ~Test(test, err)
    THEN Outcome(Nil, NilV, <<"test">>)
    ELSE Outcome(Nil, To(err),
                 IF err # Nil /\ test # "nil" THEN <<"test">> ELSE <<>>)

\* Faulty variant: a nil test accepts every error.
IgnoreNilMatches(test, r) ==
    LET err == Err(r) IN
    IF err # Nil /\ (test = "nil" \/ Test(test, err))
    THEN Outcome(Nil, NilV, IF test # "nil" THEN <<"test">> ELSE <<>>)
    ELSE Outcome(Nil, To(err), <<"test">>)

Ignore(test, r) ==
    LET err == Err(r) IN
    IF err # Nil /\ test # "nil" /\ Test(test, err)
    THEN Outcome(Nil, NilV, <<"test">>)
    ELSE Outcome(Nil, To(err),
                 IF err # Nil /\ test # "nil" THEN <<"test">> ELSE <<>>)

\* Faulty variant: calls fun without checking that there was a panic.
TransUnguarded(fun, r) ==
    LET err   == Err(r)
        call  == fun # "nil"
        err2  == IF call THEN Apply(fun, err) ELSE err
    IN  Outcome(Nil, To(err2), IF call THEN <<"fun">> ELSE <<>>)

\* Faulty variant: raises fun's result under a new trace of its own.
TransRetraces(fun, r) ==
    LET err   == Err(r)
        call  == err # Nil /\ fun # "nil"
        err2  == IF call THEN Apply(fun, err) ELSE err
    IN  Outcome(Nil, ErrV(ErrorsWithStack(err2)),
                IF call THEN <<"fun">> ELSE <<>>)

Trans(fun, r) ==
    LET err   == Err(r)
        call  == err # Nil /\ fun # "nil"
        err2  == IF call THEN Apply(fun, err) ELSE err
    IN  Outcome(Nil, To(err2), IF call THEN <<"fun">> ELSE <<>>)

\* Faulty variant: adds the message below the trace instead of on top of it.
DetailInside(msg, r) ==
    LET err == IF r.t = "err" THEN r.e ELSE IF r = NilV THEN Nil ELSE ValErr(r)
    IN  Outcome(Nil, To(ErrorsWithMessage(err, msg)), <<>>)

\* Faulty variant: puts its message below the message that is on the error.
DetailBelow(msg, r) ==
    LET err == Err(r) IN
    IF err # Nil /\ Head(err).k = "msg"
    THEN Outcome(Nil, To(<<Head(err)>> \o ErrorsWithMessage(Tail(err), msg)),
                 <<>>)
    ELSE Outcome(Nil, To(ErrorsWithMessage(err, msg)), <<>>)

Detail(msg, r) ==
    Outcome(Nil, To(ErrorsWithMessage(Err(r), msg)), <<>>)

\* func(): "nil" is the nil func, "func" a function of user code that
\* returns.  func(error): the same, "nil" or "func".
Funs == {"nil", "func"}

\* Faulty variant: panics again with what recover() gave, as it is.
TraceRaw(r) == Outcome(Nil, r, <<>>)

\* Trace(): the panic goes on, with a trace.
Trace(r) == Outcome(Nil, To(Err(r)), <<>>)

\* Faulty variant: runs fun first, whether or not there is a panic.
OkAlways(fun, r) ==
    IF fun = "nil" THEN Outcome(Nil, NilCall, <<>>)
    ELSE Outcome(Nil, To(Err(r)), <<"fun">>)

\* Ok(fun): To panics again if there was a panic; otherwise fun is called.
Ok(fun, r) ==
    LET p == To(Err(r)) IN
    IF p # NilV THEN Outcome(Nil, p, <<>>)
    ELSE IF fun = "nil" THEN Outcome(Nil, NilCall, <<>>)
    ELSE Outcome(Nil, NilV, <<"fun">>)

\* Faulty variant: panics again before fun had its turn.
FailRaisesFirst(fun, r) == Outcome(Nil, To(Err(r)), <<>>)

Fail(fun, r) ==
    LET err == Err(r) IN
    IF err # Nil /\ fun # "nil"
    THEN Handed(To(err), <<"fun">>, err)
    ELSE Outcome(Nil, To(err), <<>>)

\* Faulty variant: skips a nil fun, as Fail does, and returns.
RecWithGuarded(fun, r) ==
    LET err == Err(r) IN
    IF err # Nil /\ fun # "nil"
    THEN Handed(NilV, <<"fun">>, err)
    ELSE Outcome(Nil, NilV, <<>>)

RecWith(fun, r) ==
    LET err == Err(r) IN
    IF err # Nil
    THEN IF fun = "nil" THEN Outcome(Nil, NilCall, <<>>)
         ELSE Handed(NilV, <<"fun">>, err)
    ELSE Outcome(Nil, NilV, <<>>)

\* Faulty variant: recovers the panic on its way, as RecWithMessage does.
WithMessageRecovers(ptr, msg, r) ==
    LET err == MaybeSet(Deref(ptr), Err(r)) IN
    Outcome(ErrorsWithMessage(err, msg), NilV, <<>>)

\* WithMessage(ptr, msg): recover() is not called, so the panic r, if any,
\* goes on as it is.
WithMessage(ptr, msg, r) ==
    IF ptr # NilPtr /\ Deref(ptr) # Nil
    THEN Outcome(ErrorsWithMessage(Deref(ptr), msg), r, <<>>)
    ELSE Outcome(Deref(ptr), r, <<>>)

\* RecWithMessage of try_defer.go.
RecWithMessage(ptr, msg, r) ==
    LET err == Err(r) IN
    Outcome(IF err # Nil THEN ErrorsWithMessage(err, msg) ELSE ptr, NilV, <<>>)

\* RecWithMessage of try_rec.go: maybeSet, then WithMessage on the same
\* pointer.
RecWithMessageSet(ptr, msg, r) ==
    LET set == MaybeSet(ptr, Err(r)) IN
    Outcome(WithMessage(Ref(set), msg, NilV).ptr, NilV, <<>>)

\* A send on ch can proceed at once: a receiver is blocked on it or its
\* buffer has room.
SendReady(ch) == ch.waiting \/ Len(ch.buf) < ch.cap

\* The send proceeds: the value goes to the blocked receiver or the buffer.
Send(ch, err) ==
    IF ch.waiting
    THEN [ch EXCEPT !.waiting = FALSE, !.got = Append(@, err)]
    ELSE [ch EXCEPT !.buf = Append(@, err)]

\* Faulty variant: a plain send statement, which blocks until the channel is ready.
RecChanBlocking(ch, r) ==
    LET err == Err(r) IN
    IF err # Nil
    THEN [ch |-> IF SendReady(ch) THEN Send(ch, err) ELSE ch,
          blocked |-> ~SendReady(ch)]
    ELSE [ch |-> ch, blocked |-> FALSE]

\* RecChan(errChan): the channel afterwards, and whether the goroutine is
\* left blocked in the send.  `select` with a `default` never blocks.
RecChan(ch, r) ==
    LET err == Err(r) IN
    IF err # Nil
    THEN [ch |-> IF SendReady(ch) THEN Send(ch, err) ELSE ch,
          blocked |-> FALSE]
    ELSE [ch |-> ch, blocked |-> FALSE]

----------------------------------------------------------------------------
(* The goroutine: frames, panics, deferred calls *)

\* A frame: the function running (fn), the combinator it deferred (guard,
\* "none" without one) with the arguments the defer statement bound (pred,
\* trans, msg), and whether its body has called To with a non-nil error or
\* has panicked (failed).
Frame(fn, guard, pred, trans, msg) ==
    [msg |-> msg, fun |-> "nil", fn |-> fn, guard |-> guard, pred |-> pred,
     trans |-> trans, failed |-> FALSE, ref |-> TRUE]

\* The same, for a combinator that takes a func (fun) or whose *error
\* argument may be the nil pointer (ref: it is not).
FrameOf(guard, fun, msg, ref) ==
    [Frame("user", guard, "nil", "nil", msg) EXCEPT !.fun = fun, !.ref = ref]

Plain0(fn) == Frame(fn, "none", "nil", "nil", "")

Main == Plain0("main")

Quiet == [val |-> NilV, on |-> FALSE, origin |-> NilV, via |-> <<>>,
          args |-> <<>>]

\* No other goroutine.
NoPeer == [stack |-> <<>>, panicking |-> Quiet]

\* A channel of errors: its capacity, its buffer, whether the receiving
\* goroutine is blocked in a receive, and what that goroutine has received.
NoChan == [waiting |-> FALSE, buf |-> <<>>, cap |-> 0, got |-> <<>>]

NoOp == [msg |-> "", arg |-> NilV, op |-> "init", fun |-> "nil",
         ptr |-> NilPtr, calls |-> <<>>, given |-> Nil, fn |-> "",
         pred |-> "nil", trans |-> "nil", origin |-> NilV, via |-> <<>>,
         args |-> <<>>, after |-> NoChan, before |-> NoChan, out |-> Nil]

Top == stack[Len(stack)]

Pop == SubSeq(stack, 1, Len(stack) - 1)

Nest == Cardinality({i \in DOMAIN stack : stack[i].guard # "none"})

\* User code is about to execute its next statement.
Running == ~crashed /\ ~panicking.on /\ Top.fn \in {"main", "user"}

\* The top frame is leaving: by a panic, or because its body returns now.
Leaving(guard) == ~crashed /\ Len(stack) > 1 /\ Top.guard = guard

\* Faulty variant: the panic state is the program's, not the goroutine's, so
\* that recover() also finds the panic of the other goroutine.
RecoverAny ==
    IF panicking.on THEN panicking.val
    ELSE IF peer.panicking.on THEN peer.panicking.val
    ELSE NilV

\* recover() called directly by the deferred function: the payload of the
\* panic of the goroutine that calls it.
Recover == IF panicking.on THEN panicking.val ELSE NilV

\* Errors handed to To, payloads handed to panic, errors returned normally.
ToErrs == {Nil, Plain("A"), Plain("B"), Fund("F"),
           ErrorsWithMessage(Plain("A"), "ctx")}

PanicVals == {StrV("fail"), IntV(42), ErrV(Plain("A")), ErrV(Fund("F"))}

Results == {Nil, Plain("B")}

\* try.To(err) as a statement of user code.
CallTo ==
    /\ Running
    /\ \E err \in ToErrs :
          LET p == To(err) IN
          /\ stack' = [stack EXCEPT ![Len(stack)].failed = (err # Nil)]
          /\ panicking' = IF p # NilV
                          THEN [val |-> p, on |-> TRUE, origin |-> ErrV(err),
                                via |-> <<>>, args |-> <<>>]
                          ELSE Quiet
          /\ last' = [NoOp EXCEPT !.op = "To", !.fn = Top.fn,
                                  !.arg = ErrV(err)]
    /\ UNCHANGED <<u, chan, crashed, peer>>

\* panic(v) as a statement of user code.
Panic ==
    /\ Running
    /\ \E v \in PanicVals :
          /\ panicking' = [val |-> v, on |-> TRUE, origin |-> v, via |-> <<>>,
                           args |-> <<>>]
          /\ last' = [NoOp EXCEPT !.op = "panic", !.fn = Top.fn, !.arg = v]
    /\ stack' = [stack EXCEPT ![Len(stack)].failed = TRUE]
    /\ UNCHANGED <<u, chan, crashed, peer>>

\* A function of the library that defers a combinator and then calls fun, if
\* fun is not nil: `defer <guard>(...); if fun != nil { fun() }`.  Its frame
\* keeps the fun it was given.
CallWrapped(frame, fun) ==
    /\ Running
    /\ Nest < MaxNest
    /\ stack' = stack \o <<[frame EXCEPT !.fun = fun]>> \o
                (IF fun # "nil" THEN <<Plain0("user")>> ELSE <<>>)
    /\ last' = [NoOp EXCEPT !.op = "call", !.fn = frame.fn]
    /\ UNCHANGED <<u, panicking, chan, crashed, peer>>

Catch ==
    \E fun \in Funs :
        CallWrapped(Frame("Catch", "Rec", "nil", "nil", ""), fun)

CatchOnly ==
    \E test \in Preds, fun \in Funs :
        CallWrapped(Frame("CatchOnly", "RecOnly", test, "nil", ""), fun)

Ignoring ==
    \E test \in Preds, fun \in Funs :
        CallWrapped(Frame("Ignoring", "Ignore", test, "nil", ""), fun)

WithTrans ==
    \E trans \in TransFns, fun \in Funs :
        CallWrapped(Frame("WithTrans", "Trans", "nil", trans, ""), fun)

\* What a function of user code may open with: `defer try.<guard>(...)`.
UserDefers ==
    {Frame("user", "Rec", "nil", "nil", "")}
    \cup {Frame("user", "RecOnly", test, "nil", "") : test \in Preds}
    \cup {Frame("user", "Ignore", test, "nil", "") : test \in Preds}
    \cup {Frame("user", "Trans", "nil", trans, "") : trans \in TransFns}
    \cup {Frame("user", "Detail", "nil", "nil", msg) : msg \in DetailMsgs}

CallDeferring ==
    /\ Running
    /\ Nest < MaxNest
    /\ \E frame \in UserDefers : stack' = Append(stack, frame)
    /\ last' = [NoOp EXCEPT !.op = "call", !.fn = "user"]
    /\ UNCHANGED <<u, panicking, chan, crashed, peer>>

\* The deferred call has run with outcome o: the frame is gone, and the
\* goroutine panics again or goes on in the caller.
\* The callback or message that the frame's defer statement bound.
Bound(frame) ==
    CASE frame.guard \in {"RecOnly", "Ignore"}       -> frame.pred
      [] frame.guard = "Trans"                        -> frame.trans
      [] frame.guard \in {"Ok", "Fail", "RecWith"}    -> frame.fun
      [] OTHER                                        -> frame.msg

FinishAt(op, r, o, ptr) ==
    /\ stack' = Pop
    /\ panicking' =
          IF o.raise # NilV
          THEN [val |-> o.raise,
                on |-> TRUE,
                origin |-> IF panicking.on THEN panicking.origin ELSE o.raise,
                via |-> Append(panicking.via, <<Top.fn, op>>),
                args |-> Append(panicking.args, Bound(Top))]
          ELSE Quiet
    /\ last' = [NoOp EXCEPT !.op = op, !.fn = Top.fn, !.arg = r,
                            !.pred = Top.pred, !.trans = Top.trans,
                            !.msg = Top.msg,
                            !.out = o.ptr, !.calls = o.calls,
                            !.origin = panicking.origin,
                            !.via = panicking.via,
                            !.args = panicking.args,
                            !.fun = Top.fun, !.ptr = ptr, !.given = o.given]
    /\ UNCHANGED <<u, chan, crashed, peer>>

Finish(op, r, o) == FinishAt(op, r, o, NilPtr)

\* The named result a deferred call points at: nil in the library's own
\* functions, whatever the body returned in user code.
ResultsOf(fn) == IF fn = "user" THEN Results ELSE {Nil}

DeferredRec ==
    /\ Leaving("Rec")
    /\ \E ptr \in ResultsOf(Top.fn) :
          FinishAt("Rec", Recover, Rec(ptr, Recover), Ref(ptr))

DeferredRecOnly ==
    /\ Leaving("RecOnly")
    /\ \E ptr \in ResultsOf(Top.fn) :
          FinishAt("RecOnly", Recover, RecOnly(ptr, Top.pred, Recover), Ref(ptr))

DeferredIgnore ==
    /\ Leaving("Ignore")
    /\ Finish("Ignore", Recover, Ignore(Top.pred, Recover))

DeferredTrans ==
    /\ Leaving("Trans")
    /\ Finish("Trans", Recover, Trans(Top.trans, Recover))

DeferredDetail ==
    /\ Leaving("Detail")
    /\ Finish("Detail", Recover, Detail(Top.msg, Recover))

\* A function of user code that opens with `defer try.Detail(msg)`, called
\* by a function that may itself be the body of a Detail scope under Catch.
CallDeferringDetail ==
    /\ Running
    /\ Nest <= MaxNest
    /\ \E msg \in ScopeMsgs :
          stack' = Append(stack, Frame("user", "Detail", "nil", "nil", msg))
    /\ last' = [NoOp EXCEPT !.op = "call", !.fn = "user"]
    /\ UNCHANGED <<u, panicking, chan, crashed, peer>>

\* `defer try.Trace()`, `defer try.Ok(fun)`, `defer try.Fail(fun)`,
\* `defer try.RecWith(fun)` in user code.
UserHooks ==
    {FrameOf("Trace", "nil", "", TRUE)}
    \cup {FrameOf(guard, fun, "", TRUE) :
               guard \in {"Ok", "Fail", "RecWith"}, fun \in Funs}

CallDeferringHook ==
    /\ Running
    /\ Nest < MaxNest
    /\ \E frame \in UserHooks : stack' = Append(stack, frame)
    /\ last' = [NoOp EXCEPT !.op = "call", !.fn = "user"]
    /\ UNCHANGED <<u, panicking, chan, crashed, peer>>

DeferredTrace ==
    /\ Leaving("Trace")
    /\ Finish("Trace", Recover, Trace(Recover))

DeferredOk ==
    /\ Leaving("Ok")
    /\ Finish("Ok", Recover, Ok(Top.fun, Recover))

DeferredFail ==
    /\ Leaving("Fail")
    /\ Finish("Fail", Recover, Fail(Top.fun, Recover))

DeferredRecWith ==
    /\ Leaving("RecWith")
    /\ Finish("RecWith", Recover, RecWith(Top.fun, Recover))

\* `defer try.RecOnly(&err, test)`, `defer try.Ignore(test)`,
\* `defer try.Trans(fn)`, `defer try.Fail(fun)` in user code: the
\* combinators that panic again and take a func, which may be nil.
UserTakers ==
    {frame \in UserDefers \cup UserHooks :
        frame.guard \in {"RecOnly", "Ignore", "Trans", "Fail"}}

CallDeferringTaker ==
    /\ Running
    /\ Nest < MaxNest
    /\ \E frame \in UserTakers : stack' = Append(stack, frame)
    /\ last' = [NoOp EXCEPT !.op = "call", !.fn = "user"]
    /\ UNCHANGED <<u, panicking, chan, crashed, peer>>

\* `defer try.RecWithMessage(&err, msg)`, in the version of try_defer.go and
\* in that of try_rec.go, and `defer try.WithMessage(ptr, msg)`.
UserWraps ==
    {FrameOf(guard, "nil", msg, TRUE) :
         guard \in {"RecWithMessage", "RecWithMessageSet"}, msg \in DetailMsgs}
    \cup {FrameOf("WithMessage", "nil", msg, ref) :
               msg \in DetailMsgs, ref \in BOOLEAN}

CallDeferringWrap ==
    /\ Running
    /\ Nest < MaxNest
    /\ \E frame \in UserWraps : stack' = Append(stack, frame)
    /\ last' = [NoOp EXCEPT !.op = "call", !.fn = "user"]
    /\ UNCHANGED <<u, panicking, chan, crashed, peer>>

DeferredRecWithMessage ==
    /\ Leaving("RecWithMessage")
    /\ \E ptr \in ResultsOf(Top.fn) :
          FinishAt("RecWithMessage", Recover,
                   RecWithMessage(ptr, Top.msg, Recover), Ref(ptr))

DeferredRecWithMessageSet ==
    /\ Leaving("RecWithMessageSet")
    /\ \E ptr \in ResultsOf(Top.fn) :
          FinishAt("RecWithMessageSet", Recover,
                   RecWithMessageSet(ptr, Top.msg, Recover), Ref(ptr))

\* WithMessage does not call recover(): a panic in progress stays as it is.
DeferredWithMessage ==
    /\ Leaving("WithMessage")
    /\ \E e \in ResultsOf(Top.fn) :
          LET ptr == IF Top.ref THEN Ref(e) ELSE NilPtr
              r   == IF panicking.on THEN panicking.val ELSE NilV
              o   == WithMessage(ptr, Top.msg, r)
          IN  /\ stack' = Pop
              /\ panicking' = IF o.raise = r THEN panicking
                               ELSE IF o.raise = NilV THEN Quiet
                               ELSE [panicking EXCEPT !.val = o.raise]
              /\ last' = [NoOp EXCEPT !.op = "WithMessage", !.fn = Top.fn,
                                      !.arg = r, !.msg = Top.msg,
                                      !.out = o.ptr,
                                      !.origin = panicking.origin,
                                      !.via = panicking.via,
                                      !.args = panicking.args,
                                      !.ptr = ptr]
    /\ UNCHANGED <<u, chan, crashed, peer>>

\* A function of user code that opens with `defer try.RecChan(errChan)`.
CallDeferringRecChan ==
    /\ Running
    /\ Nest < MaxNest
    /\ stack' = Append(stack, Frame("user", "RecChan", "nil", "nil", ""))
    /\ last' = [NoOp EXCEPT !.op = "call", !.fn = "user"]
    /\ UNCHANGED <<u, panicking, chan, crashed, peer>>

DeferredRecChan ==
    /\ Leaving("RecChan")
    /\ LET o == RecChan(chan, Recover) IN
       /\ ~o.blocked
       /\ chan' = o.ch
       /\ stack' = Pop
       /\ panicking' = Quiet
       /\ last' = [NoOp EXCEPT !.op = "RecChan", !.fn = Top.fn,
                               !.arg = Recover,
                               !.origin = panicking.origin,
                               !.via = panicking.via,
                               !.args = panicking.args,
                               !.before = chan, !.after = o.ch]
    /\ UNCHANGED <<u, crashed, peer>>

\* A function of user code that opens with a deferred call of any of the
\* combinators.
AllDefers ==
    UserDefers \cup UserHooks \cup UserWraps
    \cup {Frame("user", "RecChan", "nil", "nil", "")}

\* The same, with one deferred call for each combinator: a test that accepts
\* some errors, a fn that changes the error, a callback that is not nil.
OneOfEach ==
    {frame \in AllDefers :
        /\ frame.guard \in {"RecOnly", "Ignore"} => frame.pred = "isA"
        /\ frame.guard = "Trans" => frame.trans = "pub"
        /\ frame.guard \in {"Ok", "Fail", "RecWith"} => frame.fun = "func"
        /\ frame.ref}

\* The frame below the function of a goroutine started by a go statement:
\* when that function has returned, the goroutine is over.
Go == Plain0("go")

\* The receiving goroutine executes `<-errChan`: it takes the oldest buffered
\* value, or blocks until a sender comes.
Receive ==
    /\ ~chan.waiting
    /\ Len(chan.got) < MaxGot
    /\ chan' = IF chan.buf # <<>>
               THEN [chan EXCEPT !.buf = Tail(@), !.got = Append(@, Head(chan.buf))]
               ELSE [chan EXCEPT !.waiting = TRUE]
    /\ UNCHANGED <<u, stack, panicking, last, crashed, peer>>

\* The scheduler takes the goroutine that was executing off the processor
\* and resumes the other one where it had stopped.
Switch ==
    /\ ~crashed
    /\ peer # NoPeer
    /\ stack' = peer.stack
    /\ panicking' = peer.panicking
    /\ peer' = [stack |-> stack, panicking |-> panicking]
    /\ UNCHANGED <<u, last, chan, crashed>>

\* A function without deferred calls returns to its caller.
Return ==
    /\ Leaving("none")
    /\ ~panicking.on
    /\ stack' = Pop
    /\ UNCHANGED <<u, panicking, last, chan, crashed, peer>>

\* A panic passes a frame without deferred calls.
Unwind ==
    /\ Leaving("none")
    /\ panicking.on
    /\ stack' = Pop
    /\ UNCHANGED <<u, panicking, last, chan, crashed, peer>>

\* A panic leaves the goroutine's outermost frame: the program dies.
Crash ==
    /\ ~crashed
    /\ Len(stack) = 1
    /\ panicking.on
    /\ crashed' = TRUE
    /\ UNCHANGED <<u, stack, panicking, last, chan, peer>>

----------------------------------------------------------------------------
(* SpecTo: the typed functions of try_to.go applied to every bounded input *)

\* name(val, err) is about to be called.
ToCall(val, err) ==
    [arg |-> val, in |-> err, op |-> "init", raise |-> NilV, ret |-> <<>>]

CallAdapter(name) ==
    /\ u.op = "init"
    /\ u.arg \in ValsOf(name)
    /\ LET o == Adapter(u.arg, u.in) IN
       u' = [u EXCEPT !.op = name, !.raise = o.raise, !.ret = o.ret]
    /\ UNCHANGED <<stack, panicking, last, chan, crashed, peer>>

CallInterface == CallAdapter("Interface")

CallBool == CallAdapter("Bool")

CallString == CallAdapter("String")

CallInt == CallAdapter("Int")

CallByteSlice == CallAdapter("ByteSlice")

----------------------------------------------------------------------------
(* SpecHasStack: the loop of HasStack, one pass at a time *)

\* Faulty variant: goes on to the cause without asking whether it is the
\* error itself.
HasStackPassFollows(err) ==
    IF err = Nil THEN [in |-> err, ret |-> <<FALSE>>]
    ELSE IF HasStackTraceMethod(err) THEN [in |-> err, ret |-> <<TRUE>>]
    ELSE [in |-> Unwrap(err), ret |-> <<>>]

\* One pass of `for { ... }` with the loop variable at err: the value
\* returned (ret, empty when the loop goes on) and the loop variable after.
HasStackPass(err) ==
    IF err = Nil THEN [in |-> err, ret |-> <<FALSE>>]
    ELSE IF HasStackTraceMethod(err) THEN [in |-> err, ret |-> <<TRUE>>]
    ELSE LET cause == Unwrap(err) IN
         IF cause = err THEN [in |-> err, ret |-> <<FALSE>>]
         ELSE [in |-> cause, ret |-> <<>>]

\* Passes the model lets the loop make: two more than any chain has links.
MaxPasses == MaxChain + 2

\* HasStack(err) has been called and is about to enter its loop.
HasStackCall(err) ==
    [n |-> 0, arg |-> ErrV(err), in |-> err, op |-> "HasStack", ret |-> <<>>]

HasStackLoop ==
    /\ u.op = "HasStack"
    /\ u.ret = <<>>
    /\ u.n < MaxPasses
    /\ LET pass == HasStackPass(u.in) IN
       u' = [u EXCEPT !.n = @ + 1, !.in = pass.in, !.ret = pass.ret]
    /\ UNCHANGED <<stack, panicking, last, chan, crashed, peer>>

----------------------------------------------------------------------------
(* Specifications *)

Init ==
    /\ u = NoCall
    /\ stack = <<Main>>
    /\ panicking = Quiet
    /\ last = NoOp
    /\ chan = NoChan
    /\ crashed = FALSE
    /\ peer = NoPeer

Next ==
    \/ CallTo
    \/ Panic
    \/ Catch
    \/ CatchOnly
    \/ Ignoring
    \/ WithTrans
    \/ CallDeferring
    \/ DeferredRec
    \/ DeferredRecOnly
    \/ DeferredIgnore
    \/ DeferredTrans
    \/ DeferredDetail
    \/ Return
    \/ Unwind
    \/ Crash

Spec == Init /\ [][Next]_vars

InitChan ==
    /\ u = NoCall
    /\ stack = <<Main>>
    /\ panicking = Quiet
    /\ last = NoOp
    /\ chan \in {[NoChan EXCEPT !.cap = c] : c \in 0..ChanCap}
    /\ crashed = FALSE
    /\ peer = NoPeer

NextChan ==
    \/ CallTo
    \/ Panic
    \/ CallDeferringRecChan
    \/ DeferredRecChan
    \/ Receive
    \/ Crash

SpecChan == InitChan /\ [][NextChan]_vars

\* The combinators that run a callback or wrap the result, under Catch.
NextHook ==
    \/ CallTo
    \/ Panic
    \/ Catch
    \/ DeferredRec
    \/ CallDeferringHook
    \/ DeferredTrace
    \/ DeferredOk
    \/ DeferredFail
    \/ DeferredRecWith
    \/ CallDeferringWrap
    \/ DeferredRecWithMessage
    \/ DeferredRecWithMessageSet
    \/ DeferredWithMessage
    \/ Return
    \/ Unwind
    \/ Crash

SpecHook == Init /\ [][NextHook]_vars

\* `go bgFun()`: a goroutine whose function opens with a deferred call of
\* one of the combinators, any of them, and the channel's receiver.
InitAll ==
    /\ u = NoCall
    /\ stack \in {<<Go, frame>> : frame \in AllDefers}
    /\ panicking = Quiet
    /\ last = NoOp
    /\ chan \in {[NoChan EXCEPT !.cap = c] : c \in 0..ChanCap}
    /\ crashed = FALSE
    /\ peer = NoPeer

NextAll ==
    \/ CallTo
    \/ Panic
    \/ DeferredRec
    \/ DeferredRecOnly
    \/ DeferredIgnore
    \/ DeferredTrans
    \/ DeferredDetail
    \/ DeferredTrace
    \/ DeferredOk
    \/ DeferredFail
    \/ DeferredRecWith
    \/ DeferredRecWithMessage
    \/ DeferredRecWithMessageSet
    \/ DeferredWithMessage
    \/ DeferredRecChan
    \/ Receive
    \/ Crash

SpecAll == InitAll /\ [][NextAll]_vars

InitErr ==
    /\ u \in {[NoCall EXCEPT !.arg = v] : v \in Payloads}
    /\ stack = <<Main>>
    /\ panicking = Quiet
    /\ last = NoOp
    /\ chan = NoChan
    /\ crashed = FALSE
    /\ peer = NoPeer

NextErr ==
    \/ CallErr
    \/ CallWithStack

SpecErr == InitErr /\ [][NextErr]_vars

InitHasStack ==
    /\ u \in {HasStackCall(err) : err \in {Nil} \cup ErrChains}
    /\ stack = <<Main>>
    /\ panicking = Quiet
    /\ last = NoOp
    /\ chan = NoChan
    /\ crashed = FALSE
    /\ peer = NoPeer

NextHasStack == HasStackLoop

SpecHasStack == InitHasStack /\ [][NextHasStack]_vars

InitTo ==
    /\ u \in {ToCall(val, err) :
                 val \in UNION {ValsOf(name) : name \in Adapters},
                 err \in {Nil} \cup ErrChains}
    /\ stack = <<Main>>
    /\ panicking = Quiet
    /\ last = NoOp
    /\ chan = NoChan
    /\ crashed = FALSE
    /\ peer = NoPeer

NextTo ==
    \/ CallInterface
    \/ CallBool
    \/ CallString
    \/ CallInt
    \/ CallByteSlice

SpecTo == InitTo /\ [][NextTo]_vars

\* Detail scopes nested in one another, under Catch or down from main.
NextNest ==
    \/ CallTo
    \/ Panic
    \/ Catch
    \/ CallDeferringDetail
    \/ DeferredDetail
    \/ DeferredRec
    \/ Return
    \/ Unwind
    \/ Crash

SpecNest == Init /\ [][NextNest]_vars

\* The functions of try_catch.go and user code deferring the combinators
\* that take a test, a fn or a callback, each given nil or not.
NextNil ==
    \/ CallTo
    \/ Panic
    \/ Catch
    \/ CatchOnly
    \/ Ignoring
    \/ WithTrans
    \/ CallDeferringTaker
    \/ DeferredRec
    \/ DeferredRecOnly
    \/ DeferredIgnore
    \/ DeferredTrans
    \/ DeferredFail
    \/ Return
    \/ Unwind
    \/ Crash

SpecNil == Init /\ [][NextNil]_vars

\* Two goroutines: main, in a function that opens with a deferred call of
\* one of the combinators, has started the other by `go bgFun()`, whose
\* function opens with one too; the scheduler interleaves them at will.
InitGo ==
    /\ u = NoCall
    /\ stack \in {<<Main, frame>> : frame \in OneOfEach}
    /\ panicking = Quiet
    /\ last = NoOp
    /\ chan \in {[NoChan EXCEPT !.cap = c] : c \in 0..ChanCap}
    /\ crashed = FALSE
    /\ peer \in {[stack |-> <<Go, frame>>, panicking |-> Quiet] :
                     frame \in OneOfEach}

NextGo ==
    \/ Switch
    \/ CallTo
    \/ Panic
    \/ DeferredRec
    \/ DeferredRecOnly
    \/ DeferredIgnore
    \/ DeferredTrans
    \/ DeferredDetail
    \/ DeferredTrace
    \/ DeferredOk
    \/ DeferredFail
    \/ DeferredRecWith
    \/ DeferredRecWithMessage
    \/ DeferredRecWithMessageSet
    \/ DeferredWithMessage
    \/ DeferredRecChan
    \/ Receive
    \/ Crash

SpecGo == InitGo /\ [][NextGo]_vars

\* User code whose functions defer any of the combinators that may panic
\* again, nested in one another and in Catch, down from main.
NextRaise ==
    \/ CallTo
    \/ Panic
    \/ Catch
    \/ CallDeferring
    \/ CallDeferringHook
    \/ DeferredRec
    \/ DeferredRecOnly
    \/ DeferredIgnore
    \/ DeferredTrans
    \/ DeferredDetail
    \/ DeferredTrace
    \/ DeferredOk
    \/ DeferredFail
    \/ DeferredRecWith
    \/ Return
    \/ Unwind
    \/ Crash

SpecRaise == Init /\ [][NextRaise]_vars

----------------------------------------------------------------------------
(* Claims *)

\* C1: WithStack is idempotent.  For every non-nil err, HasStack(WithStack(err))
\* is true; WithStack applied to its own result returns that same error; and
\* an error that started with no traced link has exactly one traced link
\* after any number of WithStack calls.
C1_WithStackIdempotent ==
    (u.op = "WithStack" /\ u.arg # NilV) =>
        /\ HasStack(u.res)
        /\ TracedLinks(u.res) >= 1
        /\ (u.n >= 2 => u.res = u.in)
        /\ (TracedLinks(u.arg.e) = 0 => TracedLinks(u.res) = 1)

C1_Witness ==
    /\ u.op = "WithStack"
    /\ u.n >= 2
    /\ u.arg.t = "err"
    /\ TracedLinks(u.arg.e) = 0
    /\ Len(u.res) = Len(u.arg.e) + 1

\* C2: Err(nil) is nil.  Err(e) for an error e returns e itself when a link
\* of e's cause chain has a trace, and otherwise a new traced link whose
\* cause is e, with e's message, and exactly one trace.
C2_ErrOfError ==
    u.op = "Err" =>
        /\ (u.arg = NilV => u.res = Nil)
        /\ (u.arg.t = "err" =>
              IF TracedLinks(u.arg.e) > 0
              THEN u.res = u.arg.e
              ELSE /\ u.res # u.arg.e
                   /\ HasStackTraceMethod(u.res)
                   /\ Unwrap(u.res) = u.arg.e
                   /\ ErrorText(u.res) = ErrorText(u.arg.e)
                   /\ TracedLinks(u.res) = 1)

C2_Witness ==
    /\ u.op = "Err"
    /\ u.arg.t = "err"
    /\ TracedLinks(u.arg.e) = 0
    /\ Len(u.arg.e) > 1
    /\ Unwrap(u.res) = u.arg.e

\* C3: Err(v) for a non-nil payload v that is not an error is a traced error
\* around Val{v}: its message is fmt.Sprint(v), Val.Value is v, and HasStack
\* of the result is true.
C3_ErrOfValue ==
    (u.op = "Err" /\ u.arg.t \in {"str", "int"}) =>
        /\ HasStack(u.res)
        /\ HasStackTraceMethod(u.res)
        /\ Unwrap(u.res) = ValErr(u.arg)
        /\ Head(Unwrap(u.res)).v = u.arg
        /\ ErrorText(u.res) = Sprint(u.arg)

C3_Witness ==
    /\ u.op = "Err"
    /\ u.arg = IntV(42)
    /\ ErrorText(u.res) = <<"4", "2">>
    /\ HasStack(u.res)

\* C4: To(nil) returns and raises nothing.  To(err) with a non-nil err panics
\* with WithStack(err): err itself if it has a trace, else a new traced link
\* whose cause is err.  It never returns: a frame whose body has made such a
\* call exists only on top of the stack of a panicking goroutine, so the
\* body executes nothing after it.
C4_ToRaises ==
    /\ (last.op = "To" /\ last.arg = NilV) => ~panicking.on
    /\ (last.op = "To" /\ last.arg # NilV) =>
          /\ panicking.on
          /\ panicking.val = ErrV(WithStack(last.arg.e))
          /\ TracedLinks(panicking.val.e) >= 1
          /\ IF TracedLinks(last.arg.e) > 0
             THEN panicking.val.e = last.arg.e
             ELSE Unwrap(panicking.val.e) = last.arg.e
    /\ \A i \in DOMAIN stack :
          stack[i].failed => (panicking.on /\ i = Len(stack))

C4_Witness ==
    /\ last.op = "To"
    /\ last.arg = ErrV(Plain("A"))
    /\ panicking.on
    /\ Top.failed
    /\ \E i \in DOMAIN stack : stack[i].guard = "Rec"

\* C5: Catch(op) returns nil if op does not panic, and Err of the payload,
\* which has a trace and the payload's text, if op panics.  Either way the
\* goroutine is not panicking when Catch has returned.
C5_Catch ==
    (last.op = "Rec" /\ last.fn = "Catch") =>
        /\ ~panicking.on
        /\ last.arg = NilV => last.out = Nil
        /\ last.arg # NilV =>
              /\ last.out = Err(last.arg)
              /\ last.out # Nil
              /\ TracedLinks(last.out) >= 1
              /\ ErrorText(last.out) = Sprint(last.arg)

C5_Witness ==
    /\ last.op = "Rec"
    /\ last.fn = "Catch"
    /\ last.arg = StrV("fail")
    /\ ErrorText(last.out) = <<"fail">>
    /\ ~panicking.on

\* The test accepts the error.
Accepts(test, err) == test # "nil" /\ Test(test, err)

\* C6: CatchOnly(pred, op), op panicking: if the classified error satisfies
\* pred, CatchOnly returns it and the panic is over; if not, CatchOnly does
\* not return and the goroutine panics with that same error, which an
\* enclosing Catch returns.
C6_CatchOnly ==
    /\ (last.op = "RecOnly" /\ last.fn = "CatchOnly" /\ last.arg # NilV) =>
          IF Accepts(last.pred, Err(last.arg))
          THEN ~panicking.on /\ last.out = Err(last.arg)
          ELSE panicking.on /\ panicking.val = ErrV(Err(last.arg))
    /\ (last.op = "Rec" /\ last.fn = "Catch"
          /\ last.via = <<(<<"CatchOnly", "RecOnly">>)>>) =>
          /\ last.out = Err(last.origin)
          /\ last.arg = ErrV(last.out)

C6_Witness ==
    /\ last.op = "Rec"
    /\ last.fn = "Catch"
    /\ last.via = <<(<<"CatchOnly", "RecOnly">>)>>
    /\ last.origin = ErrV(Plain("B"))
    /\ Unwrap(last.out) = Plain("B")

\* C7: Ignore(pred), also as deferred by Ignoring(pred, op): without a panic
\* it does nothing; a panic whose error satisfies pred ends there, the
\* guarded function returns and the body that raised is gone; a panic whose
\* error does not satisfy pred goes on with the classified error.
C7_Ignore ==
    last.op = "Ignore" =>
        IF last.arg = NilV THEN ~panicking.on
        ELSE IF Accepts(last.pred, Err(last.arg))
        THEN /\ ~panicking.on
             /\ last.out = Nil
             /\ \A i \in DOMAIN stack : ~stack[i].failed
        ELSE /\ panicking.on
             /\ panicking.val = ErrV(Err(last.arg))

C7_Witness ==
    /\ last.op = "Ignore"
    /\ last.fn = "Ignoring"
    /\ last.pred = "isA"
    /\ last.origin = ErrV(Plain("A"))
    /\ ~panicking.on

\* C8: Detail(msg): without a panic it raises nothing; with one it always
\* panics again, with a new error whose cause is the classified error and
\* whose text is "<msg>: <text of the classified error>"; Catch around it
\* returns that error.
C8_Detail ==
    /\ last.op = "Detail" =>
          IF last.arg = NilV THEN ~panicking.on
          ELSE /\ panicking.on
               /\ panicking.val.t = "err"
               /\ panicking.val.e # Err(last.arg)
               /\ Unwrap(panicking.val.e) = Err(last.arg)
               /\ ErrorText(panicking.val.e)
                     = <<last.msg, ": ">> \o ErrorText(Err(last.arg))
    /\ (last.op = "Rec" /\ last.fn = "Catch"
          /\ last.via = <<(<<"user", "Detail">>)>>) =>
          ErrorText(last.out) = <<"failed to X", ": ">> \o Sprint(last.origin)

C8_Witness ==
    /\ last.op = "Rec"
    /\ last.fn = "Catch"
    /\ last.via = <<(<<"user", "Detail">>)>>
    /\ ErrorText(last.out) = <<"failed to X", ": ", "A">>

\* The panic payload e carries res: it is res, or the traced link that To
\* put on a res that had no trace.
Carries(e, res) ==
    \/ e = res
    \/ /\ TracedLinks(res) = 0
       /\ HasStackTraceMethod(e)
       /\ Unwrap(e) = res

\* C10: Trans(fn), also as deferred by WithTrans(fn, op): without a panic fn
\* is not called and nothing is raised; with one, fn is called once with the
\* classified error, a non-nil fn(err) is raised by To, and a nil fn(err)
\* ends the panic so that the guarded function returns.
C10_Trans ==
    last.op = "Trans" =>
        IF last.arg = NilV THEN ~panicking.on /\ last.calls = <<>>
        ELSE last.trans # "nil" =>
             /\ last.calls = <<"fun">>
             /\ IF Apply(last.trans, Err(last.arg)) = Nil
                THEN ~panicking.on
                ELSE /\ panicking.on
                     /\ panicking.val.t = "err"
                     /\ Carries(panicking.val.e,
                                Apply(last.trans, Err(last.arg)))

C10_Witness ==
    /\ last.op = "Trans"
    /\ last.fn = "WithTrans"
    /\ last.trans = "toNil"
    /\ last.arg # NilV
    /\ ~panicking.on

\* What has gone through the channel, oldest first.
Delivered(ch) == ch.got \o ch.buf

\* C9: RecChan(ch) never blocks and never panics again.  With a panic and a
\* channel that cannot take a value at once (no blocked receiver and no room
\* in the buffer) the error is dropped; with a channel that can, exactly one
\* value, the classified error, is sent.  Either way the function returns.
C9_RecChan ==
    /\ Leaving("RecChan") => ENABLED DeferredRecChan
    /\ last.op = "RecChan" =>
          /\ ~panicking.on
          /\ IF last.arg # NilV
                /\ (last.before.waiting
                      \/ Len(last.before.buf) < last.before.cap)
             THEN Delivered(last.after)
                     = Append(Delivered(last.before), Err(last.arg))
             ELSE last.after = last.before

C9_Witness ==
    /\ last.op = "RecChan"
    /\ last.arg # NilV
    /\ last.before.cap = 0
    /\ ~last.before.waiting
    /\ last.after = last.before
    /\ ~panicking.on

\* C11: Ok(fn): when the guarded function returns without a panic, fn is
\* called exactly once and nothing is raised; when it panics, fn is not
\* called and the panic goes on with the classified error, which has a trace.
C11_Ok ==
    last.op = "Ok" =>
        IF last.arg = NilV
        THEN last.fun # "nil" => (last.calls = <<"fun">> /\ ~panicking.on)
        ELSE /\ last.calls = <<>>
             /\ panicking.on
             /\ panicking.val = ErrV(Err(last.arg))
             /\ HasStack(panicking.val.e)
             /\ TracedLinks(panicking.val.e) >= 1

C11_Witness ==
    /\ last.op = "Ok"
    /\ last.fun = "func"
    /\ last.arg = StrV("fail")
    /\ last.calls = <<>>
    /\ panicking.on
    /\ Len(stack) > 1

\* C12: Fail(fn): without a panic fn is not called and nothing is raised;
\* with one, fn is called exactly once, with the classified error, and the
\* panic then goes on with that same error, which an enclosing Catch returns.
C12_Fail ==
    /\ last.op = "Fail" =>
          IF last.arg = NilV
          THEN last.calls = <<>> /\ ~panicking.on
          ELSE /\ last.fun # "nil" =>
                     (last.calls = <<"fun">> /\ last.given = Err(last.arg))
               /\ panicking.on
               /\ panicking.val = ErrV(Err(last.arg))
    /\ (last.op = "Rec" /\ last.fn = "Catch"
          /\ last.via = <<(<<"user", "Fail">>)>>) =>
          /\ last.out = Err(last.origin)
          /\ last.arg = ErrV(last.out)

C12_Witness ==
    /\ last.op = "Rec"
    /\ last.fn = "Catch"
    /\ last.via = <<(<<"user", "Fail">>)>>
    /\ last.origin = IntV(42)
    /\ ErrorText(last.out) = <<"4", "2">>

\* C13: Rec(sink): with a panic, the classified error is written into *sink
\* and the panic is over, so that the guarded function returns; without a
\* panic *sink is left as it is, also when it holds an error that the
\* function returned.
C13_RecSink ==
    last.op = "Rec" =>
        /\ ~panicking.on
        /\ IF last.arg # NilV
           THEN last.out = Err(last.arg) /\ last.out # Nil
           ELSE last.out = Deref(last.ptr)

C13_Witness ==
    /\ last.op = "Rec"
    /\ last.fn = "user"
    /\ last.arg = NilV
    /\ last.ptr = Ref(Plain("B"))
    /\ last.out = Plain("B")
    /\ ~panicking.on

\* C14: RecOnly(sink, pred) with a panic always writes the classified error
\* into *sink, and panics again with that same error if pred rejects it: after
\* a rejected failure *sink holds the error although the panic goes on, and
\* the next boundary classifies the payload as the very error in *sink.
C14_RecOnlySink ==
    /\ (last.op = "RecOnly" /\ last.arg # NilV) =>
          /\ last.out = Err(last.arg)
          /\ last.out # Nil
          /\ IF Accepts(last.pred, last.out)
             THEN ~panicking.on
             ELSE /\ panicking.on
                  /\ panicking.val = ErrV(last.out)
                  /\ Err(panicking.val) = last.out
    /\ (last.op = "Rec" /\ last.via = <<(<<"user", "RecOnly">>)>>) =>
          /\ last.arg = ErrV(Err(last.origin))
          /\ last.out = last.arg.e

C14_Witness ==
    /\ last.op = "RecOnly"
    /\ last.fn = "user"
    /\ last.pred = "isA"
    /\ last.ptr = Ref(Nil)
    /\ last.origin = ErrV(Plain("B"))
    /\ Unwrap(last.out) = Plain("B")
    /\ panicking.on
    /\ panicking.val.e = last.out

\* C15: RecOnly does not check errors that are returned normally: without a
\* panic it does not call pred, raises nothing and leaves *sink as it is,
\* also when *sink holds an error that pred would reject.
C15_RecOnlyReturned ==
    (last.op = "RecOnly" /\ last.arg = NilV) =>
        /\ last.calls = <<>>
        /\ ~panicking.on
        /\ last.out = Deref(last.ptr)

C15_Witness ==
    /\ last.op = "RecOnly"
    /\ last.arg = NilV
    /\ last.pred = "isA"
    /\ last.ptr = Ref(Plain("B"))
    /\ ~Test("isA", Plain("B"))
    /\ last.out = Plain("B")
    /\ ~panicking.on

\* C16: RecWithMessage(sink, msg), in either version: with a panic, *sink
\* receives the classified error wrapped with msg, whose text is
\* "<msg>: <text of the classified error>", and the panic is over; without a
\* panic it does nothing, and *sink is left as it is also when it holds an
\* error that the function returned.
C16_RecWithMessage ==
    last.op \in {"RecWithMessage", "RecWithMessageSet"} =>
        /\ ~panicking.on
        /\ IF last.arg # NilV
           THEN /\ Unwrap(last.out) = Err(last.arg)
                /\ ErrorText(last.out)
                      = <<last.msg, ": ">> \o ErrorText(Err(last.arg))
           ELSE last.out = Deref(last.ptr)

\* C17: WithMessage(ptr, msg) never intercepts a panic: it wraps *ptr with
\* msg when ptr and *ptr are not nil and does nothing when one of them is,
\* and a panic in progress when it runs goes on unchanged.
C17_WithMessage ==
    last.op = "WithMessage" =>
        /\ panicking.on = (last.arg # NilV)
        /\ panicking.on =>
              /\ panicking.val = last.arg
              /\ panicking.origin = last.origin
              /\ panicking.via = last.via
        /\ IF last.ptr # NilPtr /\ Deref(last.ptr) # Nil
           THEN /\ Unwrap(last.out) = Deref(last.ptr)
                /\ ErrorText(last.out)
                      = <<last.msg, ": ">> \o ErrorText(Deref(last.ptr))
           ELSE last.out = Deref(last.ptr)

C17_Witness ==
    /\ last.op = "WithMessage"
    /\ last.arg = StrV("fail")
    /\ last.ptr = Ref(Plain("B"))
    /\ ErrorText(last.out) = <<"failed to X", ": ", "B">>
    /\ panicking.on
    /\ panicking.val = StrV("fail")

\* Every traced link held anywhere in err, also below a link that does not
\* expose its cause to Unwrap.
RECURSIVE AllTraced(_)
AllTraced(err) ==
    IF err = Nil THEN 0
    ELSE LET h == Head(err) IN
         (IF h.k \in {"fund", "stack"} THEN 1 ELSE 0)
         + (IF h.k = "val" THEN AllTraced(ValUnwrap(h.v)) ELSE 0)
         + AllTraced(Tail(err))

\* The links of err that hold an error without exposing it to Unwrap.
HidingLinks(err) == Cardinality({i \in DOMAIN err : err[i].k = "pub"})

\* The panic was raised again by Trans or Detail only.
MutatedOnly(via) ==
    via # <<>> /\ \A i \in DOMAIN via : via[i][2] \in {"Trans", "Detail"}

Leaf(err) == CauseChain(err)[Len(CauseChain(err))]

\* C19: Catch around WithTrans(identity, op), op panicking, returns an error
\* with the leaf cause and the text of the error that Catch(op) returns,
\* Err of op's payload, and with as many traced links: exactly one.
C19_IdentityRoundTrip ==
    (last.op = "Rec" /\ last.fn = "Catch"
        /\ last.via = <<(<<"WithTrans", "Trans">>)>>
        /\ last.args = <<"id">>) =>
        /\ last.out # Nil
        /\ Leaf(last.out) = Leaf(Err(last.origin))
        /\ ErrorText(last.out) = ErrorText(Err(last.origin))
        /\ TracedLinks(last.out) = TracedLinks(Err(last.origin))
        /\ TracedLinks(last.out) = 1

C19_Witness ==
    /\ last.op = "Rec"
    /\ last.fn = "Catch"
    /\ last.via = <<(<<"WithTrans", "Trans">>)>>
    /\ last.args = <<"id">>
    /\ last.origin = ErrV(ErrorsWithMessage(Plain("A"), "ctx"))
    /\ Leaf(last.out) = Plain("A")
    /\ ErrorText(last.out) = <<"ctx", ": ", "A">>

\* The deferred calls of the library.
Combinators ==
    {"Trace", "Ok", "Fail", "Trans", "Detail", "Ignore", "Rec", "RecOnly",
     "RecChan", "RecWith", "RecWithMessage", "RecWithMessageSet",
     "WithMessage"}

\* err is a link of the Unwrap chain of e.
Within(err, e) == \E i \in DOMAIN CauseChain(e) : CauseChain(e)[i] = err

\* The call that ran last gave the error of the panic to its sink, channel
\* or callback, and stopped the panic.
DeliveredAndStopped ==
    /\ ~panicking.on
    /\ \/ /\ last.op \in {"Rec", "RecOnly", "RecWithMessage",
                           "RecWithMessageSet"}
          /\ last.out # Nil
          /\ Within(Err(last.arg), last.out)
       \/ /\ last.op = "RecChan"
          /\ Delivered(last.after)
                = Append(Delivered(last.before), Err(last.arg))
       \/ /\ last.op = "RecWith"
          /\ last.calls = <<"fun">>
          /\ last.given = Err(last.arg)

\* The call that ran last left the goroutine panicking: with the error of
\* the panic (for Trans, with what fn made of it; below WithMessage, with
\* the payload as it was), or, where a nil fun was called, with the run-time
\* panic of that call.
Reraised ==
    /\ panicking.on
    /\ CASE last.op = "Trans" ->
                Carries(panicking.val.e, Apply(last.trans, Err(last.arg)))
         [] last.op = "WithMessage" -> panicking.val = last.arg
         [] last.op = "RecWith" ->
                last.fun = "nil" /\ panicking.val = NilCall
         [] OTHER -> /\ panicking.val.t = "err"
                     /\ Within(Err(last.arg), panicking.val.e)

\* The two ways of suppressing a failure that the caller asks for.
Suppressed ==
    /\ ~panicking.on
    /\ \/ last.op = "Ignore" /\ Accepts(last.pred, Err(last.arg))
       \/ /\ last.op = "Trans"
          /\ last.trans # "nil"
          /\ Apply(last.trans, Err(last.arg)) = Nil

\* RecChan found the channel unable to take a value at once and dropped the
\* error.
DroppedByRecChan ==
    /\ ~panicking.on
    /\ last.op = "RecChan"
    /\ ~SendReady(last.before)
    /\ last.after = last.before

\* C20 as stated: every combinator that runs during a panic either delivers
\* the error to its sink, channel or callback and stops the panic, or raises
\* it again; a failure disappears without being delivered only through
\* Ignore with a matching predicate and Trans with a nil result.
C20_PropagationPolicy ==
    (last.op \in Combinators /\ last.arg # NilV) =>
        DeliveredAndStopped \/ Reraised \/ Suppressed

\* C20 as amended: ... or through RecChan when its channel cannot take a
\* value at once.
C20_PolicyWithDrop ==
    (last.op \in Combinators /\ last.arg # NilV) =>
        DeliveredAndStopped \/ Reraised \/ Suppressed \/ DroppedByRecChan

C20_Witness ==
    /\ last.op = "RecChan"
    /\ last.arg = IntV(42)
    /\ last.before = NoChan
    /\ DroppedByRecChan
    /\ ~DeliveredAndStopped

\* The combinators that panic again with the error of the panic they found.
Reraisers == {"Trace", "Ok", "Fail", "Trans", "Detail", "Ignore", "RecOnly"}

\* The goroutine is panicking with the payload that To, or one of these
\* combinators on finding a panic, has raised.
RaisedByLibrary ==
    /\ panicking.on
    /\ \/ last.op = "To"
       \/ last.op \in Reraisers /\ last.arg # NilV

\* C21: every panic raised by To, and every panic raised again by Trace, Ok,
\* Fail, Trans, Detail, Ignore or RecOnly, carries an error for which
\* HasStack is true, however the calls are nested and whatever was raised,
\* recovered and raised again before; so it still does when it leaves the
\* outermost frame.
C21_AlwaysTraced ==
    RaisedByLibrary =>
        /\ panicking.val.t = "err"
        /\ HasStack(panicking.val.e)

C21_Witness ==
    /\ crashed
    /\ RaisedByLibrary
    /\ panicking.origin = StrV("fail")
    /\ Len(panicking.via) = 2
    /\ panicking.via[1][2] = "Trans"
    /\ panicking.args[1] = "pub"
    /\ panicking.via[2][2] = "Fail"
    /\ HasStack(panicking.val.e)

\* The deferred call that ran last ran in a goroutine that was not panicking.
CalmCall == last.op \in Combinators /\ last.origin = NilV

\* Such a call got nil from recover(), left the error its pointer leads to
\* as the function had returned it (WithMessage and the RecWithMessage of
\* try_rec.go with their message on it), handed no error to a callback and
\* sent nothing on the channel: also while the other goroutine is panicking.
C22_OwnPanicOnly ==
    CalmCall =>
        /\ last.arg = NilV
        /\ last.out = IF last.op \in {"WithMessage", "RecWithMessageSet"}
                      THEN ErrorsWithMessage(Deref(last.ptr), last.msg)
                      ELSE Deref(last.ptr)
        /\ last.given = Nil
        /\ last.after = last.before

\* The stack and the panic state of the goroutine that is not executing
\* change by no step of the one that is: they are the same when the
\* scheduler resumes it.
C22_PeerUntouched ==
    [][peer' # peer =>
          /\ stack' = peer.stack
          /\ panicking' = peer.panicking
          /\ peer'.stack = stack
          /\ peer'.panicking = panicking]_vars

\* C22: the panic state is per goroutine.  A panic raised in one goroutine
\* is never recovered by a combinator deferred in another and never changes
\* the error another goroutine's pointer leads to; nothing of it reaches
\* another goroutine but what RecChan sends on its channel and what RecWith
\* hands to its callback.
C22_PerGoroutine == []C22_OwnPanicOnly /\ C22_PeerUntouched

C22_Witness ==
    /\ stack = <<Main>>
    /\ ~panicking.on
    /\ last.op = "RecOnly"
    /\ last.pred = "isA"
    /\ CalmCall
    /\ last.ptr = Ref(Plain("B"))
    /\ last.out = Plain("B")
    /\ Len(peer.stack) = 2
    /\ peer.stack[1] = Go
    /\ peer.stack[2].guard = "Rec"
    /\ peer.panicking.on
    /\ peer.panicking.val = ErrV(WithStack(Plain("A")))

\* C23: each typed function of try_to.go, called with (val, err), returns
\* val as given when err is nil; when err is not nil it panics with the
\* payload To(err) panics with and returns no value.
C23_PassThrough ==
    (u.op \in Adapters) =>
        IF u.in = Nil
        THEN u.raise = NilV /\ u.ret = <<u.arg>>
        ELSE /\ u.raise = To(u.in)
             /\ u.raise # NilV
             /\ HasStack(u.raise.e)
             /\ u.ret = <<>>

C23_Witness ==
    /\ u.op = "ByteSlice"
    /\ u.arg = BytesV("val")
    /\ u.in = Pub(Fund("F"))
    /\ u.raise = ErrV(ErrorsWithStack(Pub(Fund("F"))))
    /\ u.ret = <<>>

\* While a panic is at a function that deferred Detail, the stack changes
\* only by that function's Detail running, once: it is the innermost scope
\* still open, the one registered last; its frame is gone afterwards, and
\* the panic goes on to the scope around it with the message on top.
C24_InnermostFirst ==
    [][(panicking.on /\ ~crashed /\ Top.guard = "Detail" /\ stack' # stack) =>
          /\ stack' = Pop
          /\ panicking'.on
          /\ panicking'.via = Append(panicking.via, <<"user", "Detail">>)
          /\ panicking'.args = Append(panicking.args, Top.msg)
          /\ ErrorText(panicking'.val.e)
                = <<Top.msg, ": ">> \o ErrorText(Err(panicking.val))]_vars

\* Catch has returned the error of a panic that passed two Detail scopes.
TwoScopes ==
    /\ last.op = "Rec"
    /\ last.fn = "Catch"
    /\ last.via = <<(<<"user", "Detail">>), (<<"user", "Detail">>)>>

\* The error reads "<outer>: <inner>: <base message>", the inner message
\* being that of the Detail that ran first; and no panic has passed more
\* Detail calls than there were scopes open when it was raised.
C24_OuterInnerBase ==
    /\ TwoScopes =>
          ErrorText(last.out) = <<last.args[2], ": ", last.args[1], ": ">>
                                    \o ErrorText(Err(last.origin))
    /\ panicking.on => Len(panicking.via) + Nest <= MaxNest + 1

\* C24: nested scopes of one goroutine run their deferred calls last
\* registered, first executed.  With a body under Detail(inner) in a scope
\* under Detail(outer) inside Catch, the inner Detail recovers the panic and
\* raises it again before the outer one, Catch returns an error that reads
\* "<outer>: <inner>: <base message>", and each Detail gets the panic at most
\* once.
C24_LastRegisteredFirst == []C24_OuterInnerBase /\ C24_InnermostFirst

C24_Witness ==
    /\ TwoScopes
    /\ last.origin = ErrV(Plain("A"))
    /\ last.args = <<"failed to Y", "failed to X">>
    /\ ErrorText(last.out) = <<"failed to X", ": ", "failed to Y", ": ", "A">>

\* C25: HasStack returns on every error whose cause chain ends in a nil
\* cause or in a link that is its own cause: while the loop runs it has made
\* no more passes than the chain has links, and it can make another.  It
\* returns true exactly when a link of the chain has a trace, false
\* otherwise and for nil; at a link that is its own cause it returns false
\* instead of going round.
C25_HasStackReturns ==
    (u.op = "HasStack") =>
        LET err   == u.arg.e
            links == Len(CauseChain(err))
        IN  /\ u.n <= links + 1
            /\ u.ret = <<>> =>
                  /\ u.n <= links
                  /\ ENABLED HasStackLoop
            /\ u.ret # <<>> =>
                  /\ u.ret = <<TracedLinks(err) > 0>>
                  /\ u.ret = <<HasStack(err)>>
                  /\ err = Nil => u.ret = <<FALSE>>
                  /\ (u.in # Nil /\ Unwrap(u.in) = u.in) =>
                        u.ret = <<FALSE>> /\ u.n = links

C25_Witness ==
    /\ u.op = "HasStack"
    /\ u.arg = ErrV(ErrorsWithMessage(Self("S"), "ctx"))
    /\ u.in = Self("S")
    /\ u.n = 2
    /\ u.ret = <<FALSE>>

\* The deferred call that ran last found a panic and had been given nil
\* for its test, fn or callback.
GivenNil ==
    /\ last.arg # NilV
    /\ \/ last.op \in {"Ignore", "RecOnly"} /\ last.pred = "nil"
       \/ last.op = "Trans" /\ last.trans = "nil"
       \/ last.op = "Fail" /\ last.fun = "nil"

\* A function of try_catch.go that was given a nil fun has run its deferred
\* call.
NilOperation ==
    /\ last.fn \in {"Catch", "CatchOnly", "Ignoring", "WithTrans"}
    /\ last.op \in {"Rec", "RecOnly", "Ignore", "Trans"}
    /\ last.fun = "nil"

\* C26: nil for a test or callback accepts nothing, does nothing and stops
\* no panic.  Ignore(nil) and RecOnly(ptr, nil) panic again with every error
\* they recovered, Trans(nil) with Err of the payload as it is, Fail(nil)
\* without calling anything; Catch, CatchOnly, Ignoring and WithTrans given
\* a nil fun return without a panic.
C26_NilNeverSuppresses ==
    /\ GivenNil =>
          /\ panicking.on
          /\ panicking.val = ErrV(Err(last.arg))
          /\ last.calls = <<>>
          /\ last.given = Nil
          /\ last.op = "RecOnly" => last.out = Err(last.arg)
    /\ NilOperation =>
          /\ ~panicking.on
          /\ last.arg = NilV
          /\ last.out = Nil
          /\ last.calls = <<>>

C26_Witness ==
    /\ crashed
    /\ GivenNil
    /\ last.op = "Fail"
    /\ last.origin = IntV(42)
    /\ last.via = <<(<<"Ignoring", "Ignore">>)>>
    /\ last.args = <<"nil">>
    /\ panicking.val = ErrV(Err(IntV(42)))

C26_WitnessNilOperation ==
    /\ NilOperation
    /\ last.fn = "CatchOnly"
    /\ last.pred = "nil"
    /\ Len(stack) = 2

====
